---- MODULE Spec2Model ----
(***************************************************************************)
(* Model of the RC-S620S FeliCa reader driver (class Rcs620s): the pending *)
(* read queue and its 10 ms timer, the _rw_command transaction, the card   *)
(* command layer, polling / block reads with the _busy flag, and the       *)
(* example program's polling loop.                                         *)
(*                                                                         *)
(* Promise reactions (microtasks) run to completion before the next timer  *)
(* or I/O callback, so every action below is one callback of the event     *)
(* loop together with the whole microtask chain it triggers.               *)
(***************************************************************************)
EXTENDS Integers, Sequences, FiniteSets, TLC

VARIABLES
    _busy,          \* this._busy
    _read_buffer,   \* this._read_buffer: '' until the first 'data' event, then a Buffer
    _read_queue,    \* this._read_queue
    now,            \* (new Date).getTime()
    procs,          \* the promises of the operations started so far and where each one stands
    written,        \* every buffer handed to this._ser.write, in order
    wire,           \* bytes the reader has sent that no 'data' event has delivered yet
    received,       \* every byte the 'data' handler was given, in order
    answered,       \* number of frames the reader has answered
    exited,         \* the node process has ended on an uncaught exception
    calls,          \* number of calls the program has made, per kind
    invoked         \* the ok_callback and ng_callback calls of the read timer, in order

vars == <<_busy, _read_buffer, _read_queue, now, procs, written, wire, received, answered,
          exited, calls, invoked>>

----------------------------------------------------------------------------
(* Bounds of the model *)

\* the timeout argument the reader is constructed with, in ms
ReaderTimeout == 10
\* calls of polling, and firings of the example's interval, in one run
MaxPolls == 2
\* calls of read_block, _read_without_encryption2 or init_device in one run
MaxReads == 1
\* blocks asked of one multi-block read
MaxBlocks == 2
\* size of a partial 'data' chunk
ChunkLen == 8
\* commands handed to _rw_command directly in one run
MaxCommands == 1
\* the longest of the short payloads
MaxShortLen == 2
\* direct calls of _read in one run, and the most bytes one asks for
MaxDirectReads == 2
MaxReadLen == 2
\* calls of one callback of one read that the log of calls keeps
MaxInvocations == 2
\* bytes an idle line delivers in one run
MaxNoise == 3

(* Program constants *)

\* the constructor's default timeout, in ms
DefaultTimeout == 1000
\* period of the read timer, in ms
TickInterval == 10
\* Rcs620s.MAX_RW_RESPONSE_LEN
MAX_RW_RESPONSE_LEN == 265

----------------------------------------------------------------------------
(* Buffers are sequences of bytes; hex strings are sequences of hex digits *)

Min(a, b) == IF a < b THEN a ELSE b

\* Buffer.slice(from, to), 0-based, to exclusive, clamped to the buffer
Slice(buf, from, to) ==
    LET t == Min(to, Len(buf))
    IN  IF from >= t THEN <<>> ELSE [k \in 1..(t - from) |-> buf[from + k]]

\* a slice that cuts nothing off
SliceFrom_whole(buf, from) == buf

SliceFrom(buf, from) == Slice(buf, from, Len(buf))

\* Buffer.toString('hex'): two lowercase hex digits per byte
ToHex(buf) ==
    [k \in 1..(2 * Len(buf)) |->
        IF k % 2 = 1 THEN buf[(k + 1) \div 2] \div 16 ELSE buf[k \div 2] % 16]

\* hex.indexOf(prefix) === 0
IndexOfIsZero(hex, prefix) ==
    /\ Len(prefix) <= Len(hex)
    /\ \A k \in 1..Len(prefix) : hex[k] = prefix[k]

RECURSIVE SumRange(_, _, _)
SumRange(buf, lo, hi) ==
    IF lo > hi THEN 0
    ELSE IF lo = hi THEN buf[lo]
    ELSE LET mid == (lo + hi) \div 2
         IN  SumRange(buf, lo, mid) + SumRange(buf, mid + 1, hi)

SumBytes(buf) == SumRange(buf, 1, Len(buf))

\* a checksum that subtracts from 256 without reducing the result
_calculate_checksum_unreduced(buffer) == 256 - (SumBytes(buffer) % 256)

\* (-check_sum) & 0xff
_calculate_checksum(buffer) == (256 - (SumBytes(buffer) % 256)) % 256

\* int2strbinLE(num, length), as the bytes Buffer.from(.., 'ascii') makes of it
RECURSIVE int2strbinLE(_, _)
int2strbinLE(num, length) ==
    IF length = 0 THEN <<>> ELSE <<num % 256>> \o int2strbinLE(num \div 256, length - 1)

\* a concatenation that puts the newest buffer first
RECURSIVE ConcatAll_reversed(_)
ConcatAll_reversed(bufs) ==
    IF bufs = <<>> THEN <<>> ELSE ConcatAll_reversed(Tail(bufs)) \o Head(bufs)

RECURSIVE ConcatAll(_)
ConcatAll(bufs) == IF bufs = <<>> THEN <<>> ELSE Head(bufs) \o ConcatAll(Tail(bufs))

\* the hex string literals of the source
HEX_ACK == <<0,0, 0,0, 15,15, 0,0, 15,15, 0,0>>
HEX_0000ff == <<0,0, 0,0, 15,15>>
HEX_d5a100 == <<13,5, 10,1, 0,0>>
HEX_d54b01011201 == <<13,5, 4,11, 0,1, 0,1, 1,2, 0,1>>
HEX_d54b00 == <<13,5, 4,11, 0,0>>
HEX_d533 == <<13,5, 3,3>>
HEX_ffff == <<15,15, 15,15>>

\* '\x00\x00\xff\x00\xff\x00'
CANCEL_FRAME == <<0, 0, 255, 0, 255, 0>>

----------------------------------------------------------------------------
(* Validators: the `check` argument of _read and of _rw_command *)

\* a hex string ('' when hex is empty)
StringCheck(hex) == [type |-> "string", hex |-> hex, name |-> "", dcs |-> 0]
\* a predicate; dcs is the value the trailer predicate closes over
FunctionCheck(name, dcs) == [type |-> "function", hex |-> <<>>, name |-> name, dcs |-> dcs]
\* the argument was omitted
UndefinedCheck == [type |-> "undefined", hex |-> <<>>, name |-> "", dcs |-> 0]

\* JavaScript truthiness of a check: a function or a non-empty string
Truthy(check) ==
    \/ check.type = "function"
    \/ check.type = "string" /\ check.hex # <<>>

\* buf => buf.toString('hex').indexOf('0000ff') === 0
IsHeader(buf) == IndexOfIsZero(ToHex(buf), HEX_0000ff)

\* a trailer predicate that expects the zero first
IsTrailer_swapped(buf, dcs) == Len(buf) >= 2 /\ buf[1] = 0 /\ buf[2] = dcs

\* buf => buf[0] === dcs && buf[1] === 0x00
IsTrailer(buf, dcs) == Len(buf) >= 2 /\ buf[1] = dcs /\ buf[2] = 0

\* the predicate _card_command passes to _rw_command
IsCardResponse(buf) ==
    /\ Len(buf) >= 4
    /\ IndexOfIsZero(ToHex(buf), HEX_d5a100)
    /\ Len(buf) = buf[4] + 3

\* the predicate polling passes to _rw_command
IsPollResponse(buf) ==
    \/ IndexOfIsZero(ToHex(buf), HEX_d54b01011201)
    \/ IndexOfIsZero(ToHex(buf), HEX_d54b00)

\* check.apply(this, [buf]) for the predicates of the source
ApplyFunction(check, buf) ==
    CASE check.name = "header" -> IsHeader(buf)
      [] check.name = "trailer" -> IsTrailer(buf, check.dcs)
      [] check.name = "card" -> IsCardResponse(buf)
      [] check.name = "polling" -> IsPollResponse(buf)
      [] OTHER -> FALSE

\* a check that lets everything through
CheckOk_always(check, buf) == TRUE

\* the value of check_ok where the source computes it
CheckOk(check, buf) ==
    IF check.type = "function" THEN ApplyFunction(check, buf)
    ELSE IF check.type = "string" THEN check.hex = ToHex(buf)
    ELSE FALSE

----------------------------------------------------------------------------
(* Commands and frames *)

SYSTEM_CODE_SUICA == <<0, 3>>
SERVICE_CODE_PROPERTIES == <<139, 0>>

\* a header that goes to the extended form one octet early
FrameHeader_early(len) ==
    IF len < 255
    THEN <<0, 0, 255, len % 256, (256 - (len % 256)) % 256>>
    ELSE LET buffer1 == <<0, 0, 255, 255, 255, (len \div 256) % 256, len % 256>>
         IN  buffer1 \o <<_calculate_checksum(SliceFrom(buffer1, 2))>>

\* the frame header _rw_command writes before a payload of length len
FrameHeader(len) ==
    IF len <= 255
    THEN <<0, 0, 255, len % 256, (256 - (len % 256)) % 256>>
    ELSE LET buffer1 == <<0, 0, 255, 255, 255, (len \div 256) % 256, len % 256>>
         IN  buffer1 \o <<_calculate_checksum(SliceFrom(buffer1, 2))>>

\* the trailer _rw_command writes after the payload
FrameTrailer(send_buffer) == <<_calculate_checksum(send_buffer), 0>>

\* the envelope _card_command puts around a card command
CardEnvelope(command, timeout) ==
    LET command_timeout == IF timeout >= 32768 THEN 65535 ELSE timeout * 2
    IN  <<212, 160>> \o int2strbinLE(command_timeout, 2)
            \o <<(Len(command) + 1) % 256>> \o command

PollCommand(system_code) == <<212, 74, 1, 1, 0>> \o system_code \o <<0, 15>>

RequestServiceCommand(idm, service_code) == <<2>> \o idm \o <<1>> \o service_code

ReadCommand(idm, service_code, block_number) ==
    <<6>> \o idm \o <<1>> \o service_code \o <<1, 128, block_number % 256>>

INIT_OPEN_DEVICE == <<212, 50, 2, 0, 0, 0>>
INIT_RF_MAX_RETRIES == <<212, 50, 5, 0, 0, 0>>
INIT_RF_ADDITIONAL_WAIT == <<212, 50, 129, 183>>

----------------------------------------------------------------------------
(* Promises.  A settled promise keeps its outcome; errors {error, error2}  *)
(* are written as the sequence of their tags, outermost first.             *)

Pending ==
    [state |-> "pending", value |-> <<>>, found |-> FALSE, idm |-> <<>>, pmn |-> <<>>,
     balance |-> -1, error |-> <<>>, block_number |-> -1]

Ok(value) == [Pending EXCEPT !.state = "ok", !.value = value]

Ng(error) == [Pending EXCEPT !.state = "ng", !.error = error]

\* the arguments an operation is called with
Args ==
    [command |-> <<>>, check |-> UndefinedCheck, system_code |-> <<>>, idm |-> <<>>,
     service_code |-> <<>>, block_number |-> 0, length |-> 0, processing |-> "",
     timeout |-> -1]

\* one call of an operation of the class: its arguments, the locals its
\* callbacks close over, where it stands, and the promise it returned
NewProc(op, parent, a) ==
    [op |-> op, parent |-> parent, pc |-> "start",
     command |-> a.command, check |-> a.check, system_code |-> a.system_code,
     idm |-> a.idm, service_code |-> a.service_code,
     block_number |-> a.block_number, length |-> a.length,
     processing |-> a.processing, timeout |-> a.timeout,
     i |-> 0, results |-> <<>>, response_body |-> <<>>, error |-> <<>>,
     out |-> Pending]

\* the object state the callbacks of one event-loop turn work on
State ==
    [procs |-> procs, busy |-> _busy, queue |-> _read_queue, written |-> written,
     uncaught |-> FALSE, bye |-> FALSE]

\* this._timeout as the constructor sets it from its timeout argument
_timeout == IF ReaderTimeout # 0 THEN ReaderTimeout ELSE DefaultTimeout

----------------------------------------------------------------------------
(* _read, _write_serial, _cancel *)

\* the timeout _read ends up using; -1 stands for an omitted argument
ReadTimeout(timeout, configured) ==
    IF timeout = -1 \/ timeout # 0 THEN configured ELSE timeout

\* _read(length, check, timeout) called by process owner
_read(s, owner, length, check, timeout) ==
    [s EXCEPT !.queue = Append(@,
        [time_in |-> now,
         time_expire |-> now + ReadTimeout(timeout, _timeout),
         bytes_needed |-> length,
         buffers |-> <<>>,
         check |-> check,
         owner |-> owner,
         promise |-> "pending"])]

\* this._ser.write(buffer) on behalf of process p; part names which write it is
_write_serial(s, p, part, buffer) ==
    [s EXCEPT !.written = Append(@, [proc |-> p, part |-> part, bytes |-> buffer])]

\* a cancel that waits its ten milliseconds and sends nothing
_cancel_unsent(s, p, error) ==
    [s EXCEPT !.procs[p].pc = "cancel_drain", !.procs[p].error = error]

\* the first half of _cancel: write the cancel frame and wait for the drain;
\* error is what the caller hands to overall_ng once _cancel resolves
_cancel(s, p, error) ==
    LET s1 == _write_serial(s, p, "cancel", CANCEL_FRAME)
    IN  [s1 EXCEPT !.procs[p].pc = "cancel_drain", !.procs[p].error = error]

\* a then-callback threw: the promise chain is dropped, the rejection is unhandled
Thrown(s, p) == [s EXCEPT !.procs[p].pc = "thrown", !.uncaught = TRUE]

----------------------------------------------------------------------------
(* Results of the operations *)

\* read_number(buffer, idx, len, byte_order) for len > 0; -1 stands for NaN,
\* which the sum becomes when an index lies outside the buffer
read_number(buffer, idx, len, byte_order) ==
    LET extracted == [k \in 1..len |-> idx + k]
        ordered == IF byte_order = "LE"
                   THEN [k \in 1..len |-> extracted[len + 1 - k]]
                   ELSE extracted
        F[j \in 0..len] ==
            IF j = 0 THEN 0 ELSE F[j - 1] * 256 + buffer[ordered[j]]
    IN  IF \E k \in 1..len : idx + k > Len(buffer) THEN -1 ELSE F[len]

\* a polling that takes the identifiers one octet early
PollingResult_early(response_buffer1) ==
    IF IndexOfIsZero(ToHex(response_buffer1), HEX_d54b01011201)
    THEN [Ok(<<>>) EXCEPT !.found = TRUE,
                          !.idm = Slice(response_buffer1, 5, 5 + 8),
                          !.pmn = Slice(response_buffer1, 13, 13 + 8)]
    ELSE Ok(<<>>)

\* what polling resolves with for a response the transaction let through
PollingResult(response_buffer1) ==
    IF IndexOfIsZero(ToHex(response_buffer1), HEX_d54b01011201)
    THEN [Ok(<<>>) EXCEPT !.found = TRUE,
                          !.idm = Slice(response_buffer1, 6, 6 + 8),
                          !.pmn = Slice(response_buffer1, 14, 14 + 8)]
    ELSE Ok(<<>>)

\* SERVICES.SUICA.PROPERTIES.processing(results); other descriptors have none
Processing(processing, results) ==
    IF results = <<>> THEN Ok(<<>>)
    ELSE [Ok(<<>>) EXCEPT !.balance = read_number(results[1], 11, 2, "LE")]

\* the validator stage of _rw_command: check_ok is computed in an inner block
\* and never read; the stage passes exactly when a check was supplied
ValidatorStagePasses(check, response_body) ==
    LET check_ok == IF Truthy(check) THEN CheckOk(check, response_body) ELSE FALSE
    IN  Truthy(check)

\* an init_device that configures the additional wait before the retries
InitCommand_swapped(i) ==
    CASE i = 0 -> INIT_OPEN_DEVICE [] i = 1 -> INIT_RF_ADDITIONAL_WAIT [] OTHER -> INIT_RF_MAX_RETRIES

\* the commands and the stage tags of init_device
InitCommand(i) ==
    CASE i = 0 -> INIT_OPEN_DEVICE [] i = 1 -> INIT_RF_MAX_RETRIES [] OTHER -> INIT_RF_ADDITIONAL_WAIT

InitErrorTag(i) ==
    CASE i = 0 -> "open-device-failed" [] i = 1 -> "RFConfiguration-1-failed"
      [] OTHER -> "RFConfiguration-2-failed"

----------------------------------------------------------------------------
(* The operations.  Call starts an operation and runs it up to its first   *)
(* asynchronous wait; Settle resolves or rejects the promise it returned   *)
(* and runs the caller's then-callbacks (OnChild).                         *)

RECURSIVE Call(_, _, _, _), Settle(_, _, _), OnChild(_, _, _)

\* polling(system_code), up to the _rw_command call
polling(s, p) ==
    IF s.busy
    THEN Settle(s, p, Ng(<<"busy">>))
    ELSE Call([s EXCEPT !.busy = TRUE, !.procs[p].pc = "_rw_command"],
              "_rw_command", p,
              [Args EXCEPT !.command = PollCommand(s.procs[p].system_code),
                           !.check = FunctionCheck("polling", 0)])

\* the then-callbacks of polling
polling_then(s, p, out) ==
    LET s1 == [s EXCEPT !.busy = FALSE]
    IN  IF out.state = "ok"
        THEN Settle(s1, p, PollingResult(out.value))
        ELSE Settle(s1, p, Ng(<<"InListPassiveTarget-failed">> \o out.error))

\* _card_command(command): the second argument callers pass is not a parameter
_card_command(s, p) ==
    Call([s EXCEPT !.procs[p].pc = "_rw_command"], "_rw_command", p,
         [Args EXCEPT !.command = CardEnvelope(s.procs[p].command, _timeout),
                      !.check = FunctionCheck("card", 0)])

_card_command_then(s, p, out) ==
    IF out.state = "ok"
    THEN Settle(s, p, Ok(SliceFrom(out.value, 4)))
    ELSE Settle(s, p, Ng(<<"ex-command-failed">> \o out.error))

_request_service(s, p) ==
    Call([s EXCEPT !.procs[p].pc = "_card_command"], "_card_command", p,
         [Args EXCEPT !.command =
              RequestServiceCommand(s.procs[p].idm, s.procs[p].service_code)])

_request_service_then(s, p, out) ==
    IF out.state = "ok"
    THEN Settle(s, p, Ok(<<>>))
    ELSE Settle(s, p, Ng(<<"request-service-failed">> \o out.error))

_read_without_encryption(s, p) ==
    Call([s EXCEPT !.procs[p].pc = "_card_command"], "_card_command", p,
         [Args EXCEPT !.command =
              ReadCommand(s.procs[p].idm, s.procs[p].service_code,
                          s.procs[p].block_number)])

_read_without_encryption_then(s, p, out) ==
    IF out.state = "ok"
    THEN Settle(s, p, Ok(SliceFrom(out.value, 12)))
    ELSE Settle(s, p, Ng(<<"rw-command-failed">> \o out.error))

\* task i of _read_without_encryption2
ReadTask(s, p, i) ==
    Call([s EXCEPT !.procs[p].pc = "serial", !.procs[p].i = i],
         "_read_without_encryption", p,
         [Args EXCEPT !.idm = s.procs[p].idm,
                      !.service_code = s.procs[p].service_code,
                      !.block_number = s.procs[p].block_number + i])

\* _read_without_encryption2(idm, service_code, block_number, length):
\* sets _busy without testing it, then serial(tasks)
_read_without_encryption2(s, p) ==
    LET s1 == [s EXCEPT !.busy = TRUE]
    IN  IF s.procs[p].length <= 0
        THEN Settle([s1 EXCEPT !.busy = FALSE], p, Ok(<<>>))
        ELSE ReadTask(s1, p, 0)

\* a task settled: the next task, the end of serial, or the failure callback,
\* which throws on the undeclared name `colors` before it reaches task_ng
_read_without_encryption2_then(s, p, out) ==
    LET me == s.procs[p]
        results == Append(me.results, out.value)
    IN  IF out.state = "ok"
        THEN IF me.i + 1 < me.length
             THEN ReadTask([s EXCEPT !.procs[p].results = results], p, me.i + 1)
             ELSE Settle([s EXCEPT !.procs[p].results = results, !.busy = FALSE],
                         p, Ok(ConcatAll(results)))
        ELSE Thrown(s, p)

read_block(s, p) ==
    Call([s EXCEPT !.procs[p].pc = "_request_service"], "_request_service", p,
         [Args EXCEPT !.idm = s.procs[p].idm, !.service_code = s.procs[p].service_code])

read_block_then(s, p, out) ==
    LET me == s.procs[p]
    IN  IF me.pc = "_request_service"
        THEN IF out.state = "ok"
             THEN Call([s EXCEPT !.procs[p].pc = "_read_without_encryption2"],
                       "_read_without_encryption2", p,
                       [Args EXCEPT !.idm = me.idm, !.service_code = me.service_code,
                                    !.block_number = me.block_number,
                                    !.length = me.length])
             ELSE Settle(s, p, Ng(<<"request-service-failed">> \o out.error))
        ELSE IF out.state = "ok"
             THEN Settle(s, p, Ok(out.value))
             ELSE Settle(s, p, [Ng(<<"read-without-encryption2-failed">> \o out.error)
                                   EXCEPT !.block_number = out.block_number])

\* funcs[i] of read_service: read_block(idm, service_code, i, blocks)
ServiceTask(s, p, i) ==
    Call([s EXCEPT !.procs[p].pc = "serial", !.procs[p].i = i], "read_block", p,
         [Args EXCEPT !.idm = s.procs[p].idm,
                      !.service_code = s.procs[p].service_code,
                      !.block_number = i,
                      !.length = s.procs[p].length])

\* read_service(idm, sevice) with sevice.blocks = length >= 1
read_service(s, p) == ServiceTask(s, p, 0)

read_service_then(s, p, out) ==
    LET me == s.procs[p]
        results == Append(me.results, out.value)
    IN  IF out.state = "ok"
        THEN IF me.i + 1 < me.length
             THEN ServiceTask([s EXCEPT !.procs[p].results = results], p, me.i + 1)
             ELSE IF me.processing = ""
             THEN \* processing is undefined: calling it throws
                  Thrown([s EXCEPT !.procs[p].results = results], p)
             ELSE Settle([s EXCEPT !.procs[p].results = results], p,
                         Processing(me.processing, results))
        ELSE Settle(s, p, out)

\* step i of init_device
InitStep(s, p, i) ==
    Call([s EXCEPT !.procs[p].pc = "_rw_command", !.procs[p].i = i], "_rw_command", p,
         [Args EXCEPT !.command = InitCommand(i), !.check = StringCheck(HEX_d533)])

init_device(s, p) == InitStep(s, p, 0)

init_device_then(s, p, out) ==
    LET me == s.procs[p]
    IN  IF out.state = "ok"
        THEN IF me.i < 2 THEN InitStep(s, p, me.i + 1) ELSE Settle(s, p, Ok(<<>>))
        ELSE Settle(s, p, Ng(<<InitErrorTag(me.i)>> \o out.error))

\* the example program's setInterval callback: poll, and read the balance
\* service when the poll returns a card
interval(s, p) ==
    Call([s EXCEPT !.procs[p].pc = "polling"], "polling", p,
         [Args EXCEPT !.system_code = SYSTEM_CODE_SUICA])

interval_then(s, p, out) ==
    LET me == s.procs[p]
    IN  IF me.pc = "polling"
        THEN IF out.state = "ok" /\ out.found
             THEN Call([s EXCEPT !.procs[p].pc = "read_service"], "read_service", p,
                       [Args EXCEPT !.idm = out.idm,
                                    !.service_code = SERVICE_CODE_PROPERTIES,
                                    !.length = 1,
                                    !.processing = "balance"])
             ELSE [s EXCEPT !.procs[p].pc = "done"]
        ELSE IF out.state = "ok"
             THEN [s EXCEPT !.procs[p].pc = "done", !.bye = TRUE]
             ELSE [s EXCEPT !.procs[p].pc = "done"]

Call(s, op, parent, a) ==
    LET p == Len(s.procs) + 1
        s1 == [s EXCEPT !.procs = Append(@, NewProc(op, parent, a))]
    IN  CASE op = "_rw_command" -> [s1 EXCEPT !.procs[p].pc = "flush"]
          [] op = "_read" -> _read([s1 EXCEPT !.procs[p].pc = "queued"], p, a.length,
                                   a.check, a.timeout)
          [] op = "_card_command" -> _card_command(s1, p)
          [] op = "polling" -> polling(s1, p)
          [] op = "_request_service" -> _request_service(s1, p)
          [] op = "_read_without_encryption" -> _read_without_encryption(s1, p)
          [] op = "_read_without_encryption2" -> _read_without_encryption2(s1, p)
          [] op = "read_block" -> read_block(s1, p)
          [] op = "read_service" -> read_service(s1, p)
          [] op = "init_device" -> init_device(s1, p)
          [] op = "interval" -> interval(s1, p)

Settle(s, p, out) ==
    LET s1 == [s EXCEPT !.procs[p].out = out, !.procs[p].pc = "settled"]
        parent == s.procs[p].parent
    IN  IF parent = 0 THEN s1 ELSE OnChild(s1, parent, out)

OnChild(s, p, out) ==
    LET op == s.procs[p].op
    IN  CASE op = "_card_command" -> _card_command_then(s, p, out)
          [] op = "polling" -> polling_then(s, p, out)
          [] op = "_request_service" -> _request_service_then(s, p, out)
          [] op = "_read_without_encryption" -> _read_without_encryption_then(s, p, out)
          [] op = "_read_without_encryption2" -> _read_without_encryption2_then(s, p, out)
          [] op = "read_block" -> read_block_then(s, p, out)
          [] op = "read_service" -> read_service_then(s, p, out)
          [] op = "init_device" -> init_device_then(s, p, out)
          [] op = "interval" -> interval_then(s, p, out)

----------------------------------------------------------------------------
(* _rw_command: the callbacks of its reads *)

\* the header callback: length resolution and the length limit
HeaderRead(s, p, response_body) ==
    IF response_body[4] = 255 /\ response_body[5] = 255
    THEN \* this._read_serial(3) calls this._data_in_get, which does not exist
         Thrown(s, p)
    ELSE IF _calculate_checksum(SliceFrom(response_body, 3)) # 0
    THEN _cancel(s, p, <<"response-checksum-error">>)
    ELSE LET response_len == response_body[4]
         IN  IF response_len > MAX_RW_RESPONSE_LEN
             THEN _cancel(s, p, <<"response-too-long">>)
             ELSE _read([s EXCEPT !.procs[p].pc = "body"], p, response_len,
                        StringCheck(<<>>), -1)

\* the trailer callback: the caller's validator
TrailerRead(s, p) ==
    LET me == s.procs[p]
    IN  IF ValidatorStagePasses(me.check, me.response_body)
        THEN Settle(s, p, Ok(me.response_body))
        ELSE _cancel(s, p, <<"check-failed">>)

\* the promise of the read that process p awaits was resolved with buf; a read
\* the program asked for itself settles the promise the program holds
ReadResolved(s, p, buf) ==
    LET pc == s.procs[p].pc
    IN  CASE s.procs[p].op = "_read" -> Settle(s, p, Ok(buf))
          [] pc = "ack" ->
                _read([s EXCEPT !.procs[p].pc = "header"], p, 5,
                      FunctionCheck("header", 0), -1)
          [] pc = "header" -> HeaderRead(s, p, buf)
          [] pc = "body" ->
                _read([s EXCEPT !.procs[p].pc = "trailer",
                                !.procs[p].response_body = buf],
                      p, 2, FunctionCheck("trailer", _calculate_checksum(buf)), -1)
          [] pc = "trailer" -> TrailerRead(s, p)
          [] OTHER -> s

\* the error tag of the stage a read failed in
StageTag(pc) ==
    CASE pc = "ack" -> "no-ack"
      [] pc = "header" -> "no-valid-message"
      [] pc = "body" -> "read-response-failed"
      [] OTHER -> "response-checksum-invalid"

\* the promise of the read that process p awaits was rejected with err
ReadRejected(s, p, err) ==
    IF s.procs[p].op = "_read" THEN Settle(s, p, Ng(<<err>>))
    ELSE IF s.procs[p].pc \in {"ack", "header", "body", "trailer"}
    THEN _cancel(s, p, <<StageTag(s.procs[p].pc), err>>)
    ELSE s

----------------------------------------------------------------------------
(* The event loop *)

Init ==
    /\ _busy = FALSE
    /\ _read_buffer = [is_buffer |-> FALSE, bytes |-> <<>>]
    /\ _read_queue = <<>>
    /\ now = 0
    /\ procs = <<>>
    /\ written = <<>>
    /\ wire = <<>>
    /\ received = <<>>
    /\ answered = {}
    /\ exited = FALSE
    /\ calls = [kind \in {"poll", "read", "_read", "command"} |-> 0]
    /\ invoked = <<>>

\* the end of one event-loop turn: the object takes the state the callbacks left
Commit(s, exits) ==
    /\ procs' = s.procs
    /\ _busy' = s.busy
    /\ _read_queue' = s.queue
    /\ written' = s.written
    /\ exited' = exits

\* ... where an unhandled rejection may end the process (it does by default
\* from Node 15 on), and the example's bye() ends it
Finish(s) ==
    \E exits \in (IF s.bye THEN {TRUE} ELSE IF s.uncaught THEN {FALSE, TRUE} ELSE {FALSE}) :
        Commit(s, exits)

\* a shift that takes the first byte off the accumulation buffer
ShiftReadBuffer_drops(read_buffer) ==
    [read_buffer EXCEPT !.bytes = IF @ = <<>> THEN @ ELSE Tail(@)]

\* a queue that gives up its newest entry
Shift_pop(read_queue) == SubSeq(read_queue, 1, Len(read_queue) - 1)

\* this._read_buffer.shift() in the timeout branch: neither '' nor a Buffer has
\* a shift method, so the call throws and the buffer is as it was
ShiftReadBuffer(read_buffer) == read_buffer

\* this._read_queue.shift()
Shift(read_queue) == Tail(read_queue)

\* the read timer calls a callback of read_req; the log keeps the first
\* MaxInvocations calls of each callback of each read
Invoke(log, read_req, callback) ==
    LET call == [owner |-> read_req.owner, check |-> read_req.check, callback |-> callback]
    IN  IF Cardinality({k \in 1..Len(log) : log[k] = call}) < MaxInvocations
        THEN Append(log, call)
        ELSE log

\* a deadline that counts only while the bytes the read needs are missing
Expired_unless_served(read_req, time) ==
    /\ time >= read_req.time_expire
    /\ Len(_read_buffer.bytes) < read_req.bytes_needed

\* the first test of the tick: the deadline of read_req has passed at time
Expired(read_req, time) == time >= read_req.time_expire

\* the setInterval callback of the constructor
Tick ==
    /\ ~exited
    /\ _read_queue # <<>>
    /\ LET read_req == _read_queue[1]
       IN  IF Expired(read_req, now)
           THEN \* ng_callback('timeout'), then this._read_buffer.shift(), which
                \* is not a function: the TypeError leaves the timer callback
                \* before anything is removed.  The process ends there unless the
                \* program handles uncaught exceptions; if it goes on, the
                \* rejection's callbacks run
                LET s1 == [State EXCEPT !.queue[1].promise =
                               IF @ = "pending" THEN "rejected" ELSE @]
                    s2 == IF read_req.promise = "pending"
                          THEN ReadRejected(s1, read_req.owner, "timeout")
                          ELSE s1
                IN  /\ \/ Commit(s1, TRUE)
                       \/ Finish(s2)
                    /\ _read_buffer' = ShiftReadBuffer(_read_buffer)
                    /\ invoked' = Invoke(invoked, read_req, "ng_callback")
                    /\ UNCHANGED <<now, wire, received, answered, calls>>
           ELSE IF ~_read_buffer.is_buffer
           THEN UNCHANGED vars
           ELSE LET bytes_to_take == Min(Len(_read_buffer.bytes), read_req.bytes_needed)
                    taken == Slice(_read_buffer.bytes, 0, bytes_to_take)
                    bytes_needed == read_req.bytes_needed - bytes_to_take
                    out_buffer == read_req.buffers \o taken
                    check_ok == IF Truthy(read_req.check)
                                THEN CheckOk(read_req.check, out_buffer)
                                ELSE TRUE
                    s1 == [State EXCEPT !.queue = Shift(@)]
                    s2 == IF read_req.promise # "pending" THEN s1
                          ELSE IF check_ok THEN ReadResolved(s1, read_req.owner, out_buffer)
                          ELSE ReadRejected(s1, read_req.owner, "check-failed")
                IN  /\ _read_buffer' = [_read_buffer EXCEPT
                                          !.bytes = SliceFrom(@, bytes_to_take)]
                    /\ IF bytes_needed = 0
                       THEN /\ Finish(s2)
                            /\ invoked' =
                                   Invoke(IF check_ok THEN invoked
                                          ELSE Invoke(invoked, read_req, "ng_callback"),
                                          read_req, "ok_callback")
                       ELSE /\ _read_queue' = [_read_queue EXCEPT
                                                 ![1].bytes_needed = bytes_needed,
                                                 ![1].buffers = out_buffer]
                            /\ UNCHANGED <<procs, _busy, written, exited, invoked>>
                    /\ UNCHANGED <<now, wire, received, answered, calls>>

\* the clock moves on while the head of the queue waits for its deadline
Advance ==
    /\ ~exited
    /\ _read_queue # <<>>
    /\ now < _read_queue[1].time_expire
    /\ now' = now + TickInterval
    /\ UNCHANGED <<_busy, _read_buffer, _read_queue, procs, written, wire, received,
                   answered, exited, calls, invoked>>

\* the serial port's 'data' handler, called with the first n unread bytes
DataEvent(n) ==
    /\ ~exited
    /\ n \in 1..Len(wire)
    /\ LET buffer == Slice(wire, 0, n)
       IN  _read_buffer' =
               IF ~_read_buffer.is_buffer
               THEN [is_buffer |-> TRUE, bytes |-> buffer]
               ELSE [is_buffer |-> TRUE, bytes |-> _read_buffer.bytes \o buffer]
    /\ wire' = SliceFrom(wire, n)
    /\ received' = received \o Slice(wire, 0, n)
    /\ UNCHANGED <<_busy, _read_queue, now, procs, written, answered, exited, calls, invoked>>

\* the callback of this._ser.flush in _rw_command: unread input is gone, the
\* frame header is written
FlushDone(p) ==
    /\ ~exited
    /\ p \in 1..Len(procs)
    /\ procs[p].op = "_rw_command" /\ procs[p].pc = "flush"
    /\ wire' = <<>>
    /\ Finish(_write_serial([State EXCEPT !.procs[p].pc = "promise0"], p, "header",
                            FrameHeader(Len(procs[p].command))))
    /\ UNCHANGED <<_read_buffer, now, received, answered, calls, invoked>>

\* the callback of this._ser.drain for the write process p waits on
DrainDone(p) ==
    /\ ~exited
    /\ p \in 1..Len(procs)
    /\ procs[p].op = "_rw_command"
    /\ procs[p].pc \in {"promise0", "promise1", "promise2", "cancel_drain"}
    /\ LET pc == procs[p].pc
           s == State
       IN  Finish(
             CASE pc = "promise0" ->
                    _write_serial([s EXCEPT !.procs[p].pc = "promise1"], p, "payload",
                                  procs[p].command)
               [] pc = "promise1" ->
                    _write_serial([s EXCEPT !.procs[p].pc = "promise2"], p, "trailer",
                                  FrameTrailer(procs[p].command))
               [] pc = "promise2" ->
                    _read([s EXCEPT !.procs[p].pc = "ack"], p, 6, StringCheck(HEX_ACK), -1)
               [] OTHER -> [s EXCEPT !.procs[p].pc = "cancel_wait"])
    /\ UNCHANGED <<_read_buffer, now, wire, received, answered, calls, invoked>>

\* the setTimeout callback of _cancel: flush, then the caller's overall_ng
CancelTimer(p) ==
    /\ ~exited
    /\ p \in 1..Len(procs)
    /\ procs[p].op = "_rw_command" /\ procs[p].pc = "cancel_wait"
    /\ wire' = <<>>
    /\ Finish(Settle(State, p, Ng(procs[p].error)))
    /\ UNCHANGED <<_read_buffer, now, received, answered, calls, invoked>>

----------------------------------------------------------------------------
(* The reader and the card at the other end of the serial line *)

IDM == <<1, 2, 3, 4, 5, 6, 7, 8>>
PMM == <<9, 10, 11, 12, 13, 14, 15, 16>>

ACK_FRAME == <<0, 0, 255, 0, 255, 0>>

\* an ACK followed by the response frame carrying body
ReaderFrame(body) ==
    ACK_FRAME \o FrameHeader(Len(body)) \o body \o FrameTrailer(body)

\* a card's answer inside the reader's D5 A1 envelope
CardReply(data) == <<213, 161, 0, (Len(data) + 1) % 256>> \o data

\* a 16-byte block whose bytes 11 and 12 hold the balance 1000 (E8 03)
BlockData(block_number) ==
    <<block_number, 0, 0, 0, 0, 0, 0, 0, 0, 0, 0, 232, 3, 0, 0, 0>>

\* the answers a healthy reader gives to the command it was sent
Answers(command) ==
    IF Slice(command, 0, 2) = <<212, 74>>
    THEN {ReaderFrame(<<213, 75, 1, 1, 18, 1>> \o IDM \o PMM),
          ReaderFrame(<<213, 75, 0>>)}
    ELSE IF Slice(command, 0, 2) = <<212, 50>>
    THEN {ReaderFrame(<<213, 51>>)}
    ELSE IF Slice(command, 5, 6) = <<2>>
    THEN {ReaderFrame(CardReply(<<3>> \o IDM \o <<1, 0, 0>>)),
          ReaderFrame(CardReply(<<3>> \o IDM \o <<1, 255, 255>>))}
    ELSE {ReaderFrame(CardReply(<<7>> \o IDM \o <<0, 0, 1>>
                                    \o BlockData(command[Len(command)])))}

\* other byte sequences the line can deliver: no ACK, a bare ACK, a wrong
\* preamble, a frame whose length checksum is wrong, extended-length headers for 256 and for 266
\* octets, a bad data checksum, and a well-formed frame with an error body
Faults ==
    {<<0, 0, 255, 255, 0, 0>>,
     ACK_FRAME,
     ACK_FRAME \o <<0, 255, 255, 1, 255>>,
     ACK_FRAME \o <<0, 0, 255, 2, 255>> \o <<213, 51>> \o <<248, 0>>,
     ACK_FRAME \o <<0, 0, 255, 255, 255, 1, 0, 255>>,
     ACK_FRAME \o <<0, 0, 255, 255, 255, 1, 10, 245>>,
     ACK_FRAME \o FrameHeader(2) \o <<213, 51>> \o <<0, 0>>,
     ReaderFrame(<<213, 161, 1>>)}

\* the _rw_command calls made so far
Transactions == {p \in 1..Len(procs) : procs[p].op = "_rw_command"}

\* the frame of transaction p is complete on the line
FrameSent(p) == \E k \in 1..Len(written) : written[k].proc = p /\ written[k].part = "trailer"

\* the reader answers a complete frame, once
ReaderReply(p, reply) ==
    /\ ~exited
    /\ p \in Transactions
    /\ FrameSent(p)
    /\ p \notin answered
    /\ wire' = wire \o reply
    /\ answered' = answered \cup {p}
    /\ UNCHANGED <<_busy, _read_buffer, _read_queue, now, procs, written, received, exited,
                   calls, invoked>>

----------------------------------------------------------------------------
(* The program that uses the class *)

\* a call of operation op with arguments a from the program's top level
ApiCall(kind, max, op, a) ==
    /\ ~exited
    /\ calls[kind] < max
    /\ calls' = [calls EXCEPT ![kind] = @ + 1]
    /\ Finish(Call(State, op, 0, a))
    /\ UNCHANGED <<_read_buffer, now, wire, received, answered, invoked>>

CallInitDevice == ApiCall("read", MaxReads, "init_device", Args)

CallPolling ==
    ApiCall("poll", MaxPolls, "polling", [Args EXCEPT !.system_code = SYSTEM_CODE_SUICA])

CallReadBlock ==
    \E block_number \in 0..1, length \in 1..MaxBlocks :
        ApiCall("read", MaxReads, "read_block",
                [Args EXCEPT !.idm = IDM,
                             !.service_code = SERVICE_CODE_PROPERTIES,
                             !.block_number = block_number,
                             !.length = length])

CallReadBlocks ==
    \E block_number \in 0..1, length \in 1..MaxBlocks :
        ApiCall("read", MaxReads, "_read_without_encryption2",
                [Args EXCEPT !.idm = IDM,
                             !.service_code = SERVICE_CODE_PROPERTIES,
                             !.block_number = block_number,
                             !.length = length])

\* the payloads of up to MaxShortLen octets
ShortPayloads ==
    UNION {[1..n -> {0, 1, 255}] : n \in 0..MaxShortLen}

\* a payload of len octets, no two neighbours alike
LongPayload(len) == [k \in 1..len |-> (3 * k + len) % 256]

\* _rw_command(command, check) called with a payload around the threshold of
\* the extended header
CallCommand ==
    \E command \in ShortPayloads \cup {LongPayload(len) : len \in 254..257},
       check \in {UndefinedCheck, StringCheck(HEX_d533), FunctionCheck("polling", 0)} :
        ApiCall("command", MaxCommands, "_rw_command",
                [Args EXCEPT !.command = command, !.check = check])

\* what a loopback answers with: the payload it was sent, as much of it as a
\* normal frame holds
Echo(command) == Slice(command, 0, 255)

\* a loopback at the other end acknowledges and answers with the normal frame
\* of the payload
EchoReader ==
    \E p \in Transactions : ReaderReply(p, ReaderFrame(Echo(procs[p].command)))

\* read_service(idm, {service_code, blocks, processing}); of the descriptors
\* in SERVICES only PROPERTIES has a processing function
CallReadService ==
    \E blocks \in 1..MaxBlocks, processing \in {"balance", ""} :
        ApiCall("read", MaxReads, "read_service",
                [Args EXCEPT !.idm = IDM,
                             !.service_code = SERVICE_CODE_PROPERTIES,
                             !.length = blocks,
                             !.processing = processing])

\* the example's setInterval callback fires
Interval == ApiCall("poll", MaxPolls, "interval", Args)

\* a direct call of _read, as a subclass may make it
CallRead ==
    \E length \in 0..MaxReadLen,
       check \in {StringCheck(<<>>), StringCheck(<<0, 0, 15, 15>>), FunctionCheck("trailer", 255)} :
        ApiCall("_read", MaxDirectReads, "_read",
                [Args EXCEPT !.length = length, !.check = check])

\* a direct call of _read with no validator and with or without a timeout
CallReadTimed ==
    \E length \in 1..MaxReadLen, timeout \in {-1, 0, 2 * ReaderTimeout} :
        ApiCall("_read", MaxDirectReads, "_read",
                [Args EXCEPT !.length = length, !.timeout = timeout])

\* bytes arrive on a line nobody sent a command on
Noise(bytes) ==
    /\ ~exited
    /\ Len(received) + Len(wire) + Len(bytes) <= MaxNoise
    /\ wire' = wire \o bytes
    /\ UNCHANGED <<_busy, _read_buffer, _read_queue, now, procs, written, received, answered,
                   exited, calls, invoked>>

\* the reader answers the command, or the line delivers something else
Reader ==
    \E p \in Transactions : \E reply \in Answers(procs[p].command) \cup Faults :
        ReaderReply(p, reply)

\* the reader answers the command
HealthyReader ==
    \E p \in Transactions : \E reply \in Answers(procs[p].command) : ReaderReply(p, reply)

\* a reader that answers a command, or sends something else, until the cancel
\* frame for that command is written
PromptReader ==
    \E p \in Transactions :
        /\ procs[p].pc \notin {"cancel_drain", "cancel_wait", "settled"}
        /\ \E reply \in Answers(procs[p].command) \cup Faults : ReaderReply(p, reply)

\* the program polls again once every promise it was given has settled
CallPollingInTurn ==
    /\ \A p \in 1..Len(procs) : procs[p].out.state # "pending"
    /\ CallPolling

\* the callbacks of the object's own timers and writes
Callbacks ==
    \/ Tick
    \/ Advance
    \/ \E p \in Transactions : FlushDone(p)
    \/ \E p \in Transactions : DrainDone(p)
    \/ \E p \in Transactions : CancelTimer(p)

\* no write of a transaction is waiting for the serial port
Quiet ==
    \A p \in Transactions : procs[p].pc \notin {"flush", "promise0", "promise1", "promise2", "cancel_drain"}

\* a program that calls polling and multi-block reads at any time, with a reader
\* that answers each command or stays silent, and a serial port whose writes
\* drain before the next timer or input event
NextPolling ==
    \/ Quiet /\ Tick
    \/ Quiet /\ Advance
    \/ \E p \in Transactions : FlushDone(p)
    \/ \E p \in Transactions : DrainDone(p)
    \/ \E p \in Transactions : CancelTimer(p)
    \/ Quiet /\ DataEvent(Len(wire))
    \/ Quiet /\ HealthyReader
    \/ Quiet /\ CallPolling
    \/ Quiet /\ CallReadBlocks
SpecPolling == Init /\ [][NextPolling]_vars

\* the example program after init_device: polling on an interval
NextUsage ==
    \/ Quiet /\ Tick
    \/ Quiet /\ Advance
    \/ \E p \in Transactions : FlushDone(p)
    \/ \E p \in Transactions : DrainDone(p)
    \/ \E p \in Transactions : CancelTimer(p)
    \/ Quiet /\ DataEvent(Len(wire))
    \/ Quiet /\ HealthyReader
    \/ Quiet /\ Interval
SpecUsage == Init /\ [][NextUsage]_vars

\* a program that calls read_service once, with a reader that answers
NextService ==
    \/ Callbacks
    \/ DataEvent(Len(wire))
    \/ HealthyReader
    \/ CallReadService
SpecService == Init /\ [][NextService]_vars

\* a program that calls the multi-block read once, on any line
NextBlocks ==
    \/ Callbacks
    \/ \E n \in {ChunkLen, Len(wire)} : DataEvent(n)
    \/ Reader
    \/ CallReadBlocks
SpecBlocks == Init /\ [][NextBlocks]_vars

\* a program that polls, on any line
NextPoll ==
    \/ Callbacks
    \/ \E n \in {ChunkLen, Len(wire)} : DataEvent(n)
    \/ Reader
    \/ CallPolling
SpecPoll == Init /\ [][NextPoll]_vars

\* a program that polls, and polls again when the poll before has settled, on
\* a line whose reader falls silent when it is sent a cancel
NextTurns ==
    \/ Callbacks
    \/ \E n \in {ChunkLen, Len(wire)} : DataEvent(n)
    \/ PromptReader
    \/ CallPollingInTurn
SpecTurns == Init /\ [][NextTurns]_vars

\* a program that hands one payload to _rw_command, with a loopback on the line
NextFrame ==
    \/ Callbacks
    \/ \E n \in {ChunkLen, Len(wire)} : DataEvent(n)
    \/ EchoReader
    \/ CallCommand
SpecFrame == Init /\ [][NextFrame]_vars

\* a program that queues reads itself while bytes trickle in
NextQueue ==
    \/ Tick
    \/ Advance
    \/ \E n \in 1..Len(wire) : DataEvent(n)
    \/ \E bytes \in {<<0>>, <<255>>, <<0, 255>>} : Noise(bytes)
    \/ CallRead
SpecQueue == Init /\ [][NextQueue]_vars

\* a program that queues reads with timeouts of its own
NextDeadline ==
    \/ Tick
    \/ Advance
    \/ \E n \in 1..Len(wire) : DataEvent(n)
    \/ \E bytes \in {<<0>>, <<255>>, <<0, 255>>} : Noise(bytes)
    \/ CallReadTimed
SpecDeadline == Init /\ [][NextDeadline]_vars

\* a program that calls read_block once, on any line
NextRead ==
    \/ Callbacks
    \/ \E n \in {ChunkLen, Len(wire)} : DataEvent(n)
    \/ Reader
    \/ CallReadBlock
SpecRead == Init /\ [][NextRead]_vars

\* a program that calls init_device once, on any line
NextInit ==
    \/ Callbacks
    \/ \E n \in {ChunkLen, Len(wire)} : DataEvent(n)
    \/ Reader
    \/ CallInitDevice
SpecInit == Init /\ [][NextInit]_vars

\* the same program on an event loop that runs every callback that is due: the
\* interval timer, the clock, the serial port's drain and 'data' events and the
\* cancel timer; the reader owes nothing
Due ==
    /\ WF_vars(Tick)
    /\ WF_vars(Advance)
    /\ WF_vars(\E n \in {ChunkLen, Len(wire)} : DataEvent(n))
    /\ WF_vars(\E p \in Transactions : FlushDone(p))
    /\ WF_vars(\E p \in Transactions : DrainDone(p))
    /\ WF_vars(\E p \in Transactions : CancelTimer(p))
FairInit == Init /\ [][NextInit]_vars /\ Due

----------------------------------------------------------------------------
(* Claims *)

\* the promise process p returned has not settled
Outstanding(p) == procs[p].out.state = "pending"

\* the calls of polling and of the multi-block read that are outstanding
Guarded == {p \in 1..Len(procs) :
              /\ procs[p].op \in {"polling", "_read_without_encryption2"}
              /\ Outstanding(p)}

\* the transactions that are in flight
InFlight == {p \in Transactions : Outstanding(p)}

\* C1: a polling call issued while another polling call or a multi-block read
\* is outstanding is rejected at once with 'busy' and writes nothing to the
\* transport.
C1_PollWhileOutstandingIsBusy ==
    [][\A p \in (1..Len(procs')) \ (1..Len(procs)) :
          (procs'[p].op = "polling" /\ Guarded # {})
              => /\ procs'[p].out = Ng(<<"busy">>)
                 /\ written' = written]_vars

\* C2: in the example program, which polls on an interval and reads the service
\* of the card a poll finds, at most one transaction is in flight at any time.
C2_OneTransactionInFlight == Cardinality(InFlight) <= 1

\* ---------------------------------------------------------------------------
\* the read queue
\* ---------------------------------------------------------------------------

\* the entries queued behind the head
Behind == {k \in 2..Len(_read_queue) : TRUE}

\* the entry of the read that process p awaits is still queued after the step
StillQueued(p) == \E j \in 1..Len(_read_queue') : _read_queue'[j].owner = p

\* the head has run out of time and this step is the tick that tells it so
TimeoutStep ==
    /\ _read_queue # <<>>
    /\ _read_queue[1].promise = "pending"
    /\ now >= _read_queue[1].time_expire
    /\ \A j \in 1..Len(_read_queue') :
           _read_queue'[j].owner = _read_queue[1].owner => _read_queue'[j].promise # "pending"

\* C3: no step gives a byte to a read queued behind the head, or takes it off
\* the queue: every such entry is in the queue after the step exactly as it
\* was, with the same bytes still needed and the same bytes accumulated
C3_OnlyHeadIsServed ==
    [][\A k \in Behind : \E j \in {k - 1, k} :
           /\ j <= Len(_read_queue')
           /\ _read_queue'[j] = _read_queue[k]]_vars

\* C3 witness: the head has taken a part of what it needs while another read
\* waits behind it with nothing
C3_HeadFedWhileSecondWaits ==
    /\ Len(_read_queue) >= 2
    /\ _read_queue[1].buffers # <<>>
    /\ _read_queue[1].bytes_needed > 0
    /\ _read_queue[2].bytes_needed > 0
    /\ _read_queue[2].buffers = <<>>

\* C4: the tick that rejects the head with 'timeout' takes it off the queue
C4_TimedOutHeadIsRemoved ==
    [][TimeoutStep => ~StillQueued(_read_queue[1].owner)]_vars

\* C5: the tick that times the head out leaves the accumulation buffer as it was
\* and leaves every later entry's deadline, bytes needed and bytes accumulated
\* as they were
C5_TimeoutTouchesNothingElse ==
    [][TimeoutStep =>
           /\ _read_buffer' = _read_buffer
           /\ \A k \in Behind : \E j \in 1..Len(_read_queue') :
                  /\ _read_queue'[j].owner = _read_queue[k].owner
                  /\ _read_queue'[j].time_expire = _read_queue[k].time_expire
                  /\ _read_queue'[j].bytes_needed = _read_queue[k].bytes_needed
                  /\ _read_queue'[j].buffers = _read_queue[k].buffers]_vars

\* C5 witness: the head was told of its timeout while bytes sat in the
\* accumulation buffer and another read waited behind it
C5_TimedOutWithBytesBuffered ==
    /\ Len(_read_queue) >= 2
    /\ _read_queue[1].promise = "rejected"
    /\ procs[_read_queue[1].owner].out = Ng(<<"timeout">>)
    /\ _read_buffer.is_buffer
    /\ _read_buffer.bytes # <<>>


\* ---------------------------------------------------------------------------
\* transactions
\* ---------------------------------------------------------------------------

\* init_device and the three commands it sends
InitProcs == 1..4

\* process p is a transaction
Started(p) == p <= Len(procs) /\ procs[p].op = "_rw_command"

\* process p is a transaction whose promise has settled
Settled(p) == Started(p) /\ ~Outstanding(p)

\* C6: every transaction that was started eventually resolves or rejects,
\* whatever the reader sends or fails to send, for as long as the process lives
C6_EveryTransactionSettles ==
    \A p \in InitProcs : Started(p) ~> (Settled(p) \/ exited)


\* the cancel frame was written for transaction p after its command frame
Cancelled(p) ==
    \E j, k \in 1..Len(written) :
        /\ j < k
        /\ written[j].proc = p /\ written[j].part = "trailer"
        /\ written[k] = [proc |-> p, part |-> "cancel", bytes |-> <<0, 0, 255, 0, 255, 0>>]

\* C7: a transaction whose command frame was sent has failed only if the cancel
\* frame 00 00 FF 00 FF 00 was written first
C7_CancelBeforeFailure ==
    \A p \in Transactions : procs[p].out.state = "ng" => Cancelled(p)

\* C7 witness: a transaction has failed on a reply whose checksum is wrong
C7_FailedTransaction ==
    \E p \in Transactions : procs[p].out = Ng(<<"response-checksum-error">>)


\* ---------------------------------------------------------------------------
\* validators
\* ---------------------------------------------------------------------------

\* C8: a transaction resolves only with a response body that the validator its
\* caller supplied accepts
C8_ResolvedOnlyIfValidatorAccepts ==
    \A p \in Transactions :
        procs[p].out.state = "ok" => CheckOk(procs[p].check, procs[p].out.value)

\* the transaction a card command ran
TransactionOf(p) == {c \in Transactions : procs[c].parent = p}

\* C9: a card command resolves only if the response body starts with D5 A1 00
\* and is body[3] + 3 octets long, and then with the body less its first four
\* octets
C9_CardCommandResolvesOnD5A100 ==
    \A p \in 1..Len(procs) :
        procs[p].op = "_card_command" /\ procs[p].out.state = "ok" =>
            \E c \in TransactionOf(p) :
                /\ IsCardResponse(procs[c].response_body)
                /\ procs[p].out.value = SliceFrom(procs[c].response_body, 4)

\* the request-service transactions that the reader answered with a card reply
\* ending in FF FF
Unavailable ==
    {c \in Transactions :
        /\ Slice(procs[c].command, 5, 6) = <<2>>
        /\ procs[c].out.state = "ok"
        /\ IsCardResponse(procs[c].out.value)
        /\ Len(procs[c].out.value) = 16
        /\ SliceFrom(procs[c].out.value, 14) = <<255, 255>>}

\* a block-read command was written to the serial port
BlockReadSent ==
    \E k \in 1..Len(written) :
        /\ written[k].part = "payload"
        /\ Slice(written[k].bytes, 0, 2) = <<212, 160>>
        /\ Slice(written[k].bytes, 5, 6) = <<6>>

\* C10: after a request-service reply that ends in FF FF the request-service
\* step has failed with 'request-service-failed' and no block-read command is
\* sent
C10_UnavailableServiceIsNotRead ==
    Unavailable # {} =>
        /\ ~BlockReadSent
        /\ \A p \in 1..Len(procs) :
               procs[p].op = "_request_service" /\ ~Outstanding(p) =>
                   /\ procs[p].out.state = "ng"
                   /\ procs[p].out.error[1] = "request-service-failed"


\* ---------------------------------------------------------------------------
\* reading services and blocks
\* ---------------------------------------------------------------------------

\* the card commands written to the serial port so far, in order, without
\* their envelope
RECURSIVE CardCommandsIn(_)
CardCommandsIn(log) ==
    IF log = <<>> THEN <<>>
    ELSE LET w == Head(log)
         IN  (IF w.part = "payload" /\ Slice(w.bytes, 0, 2) = <<212, 160>>
              THEN <<SliceFrom(w.bytes, 5)>> ELSE <<>>) \o CardCommandsIn(Tail(log))

CardCommandsSent == CardCommandsIn(written)

\* the request-service commands among them
RequestsSent == SelectSeq(CardCommandsSent, LAMBDA c : c[1] = 2)

\* the block numbers of the block-read commands among them, in order
BlocksAsked ==
    LET reads == SelectSeq(CardCommandsSent, LAMBDA c : c[1] = 6)
    IN  [k \in 1..Len(reads) |-> reads[k][Len(reads[k])]]

\* C11: a read_service over N blocks sends one request-service command and
\* then asks for blocks 0, 1, ..., N-1 once each in ascending order; when it
\* resolves, all N were asked, and the balance descriptor yields 1000 for a
\* block with E8 03 at offset 11
C11_OneRequestThenEachBlockOnce ==
    \A p \in 1..Len(procs) :
        procs[p].op = "read_service" =>
            /\ Len(RequestsSent) <= 1
            /\ Len(BlocksAsked) <= procs[p].length
            /\ \A k \in 1..Len(BlocksAsked) : BlocksAsked[k] = k - 1
            /\ procs[p].out.state = "ok" =>
                   /\ Len(BlocksAsked) = procs[p].length
                   /\ procs[p].out.balance = 1000


\* the calls process p made, oldest first
Children(p) ==
    SelectSeq([c \in 1..Len(procs) |-> c], LAMBDA c : procs[c].parent = p)

\* the multi-block reads
BlockReads == {p \in 1..Len(procs) : procs[p].op = "_read_without_encryption2"}

\* what the single-block reads in the sequence reads resolved with, end to end
RECURSIVE Joined(_)
Joined(reads) ==
    IF reads = <<>> THEN <<>> ELSE procs[Head(reads)].out.value \o Joined(Tail(reads))

\* the block numbers of the block-read commands written for the multi-block
\* read p, in the order written
BlocksAskedBy(p) ==
    LET mine == SelectSeq(written, LAMBDA w :
                    /\ w.part = "payload"
                    /\ Slice(w.bytes, 0, 2) = <<212, 160>>
                    /\ Slice(w.bytes, 5, 6) = <<6>>
                    /\ \E r \in 1..Len(procs) :
                           /\ procs[r].parent = p
                           /\ procs[procs[w.proc].parent].parent = r)
    IN  [k \in 1..Len(mine) |-> mine[k].bytes[Len(mine[k].bytes)]]

\* C12: a multi-block read asks for its blocks one at a time in ascending order,
\* for the next one only after the one before was answered, and resolves with
\* what the single-block reads resolved with, joined in that order
C12_BlocksInOrderOneAtATime ==
    \A p \in BlockReads :
        LET reads == Children(p)
        IN  /\ Len(BlocksAskedBy(p)) <= Len(reads)
            /\ \A k \in 1..Len(BlocksAskedBy(p)) :
                   BlocksAskedBy(p)[k] = procs[p].block_number + k - 1
            /\ \A k \in 1..Len(reads) :
                   /\ procs[reads[k]].block_number = procs[p].block_number + k - 1
                   /\ k < Len(reads) => procs[reads[k]].out.state = "ok"
            /\ procs[p].out.state = "ok" =>
                   /\ Len(reads) = procs[p].length
                   /\ procs[p].out.value = Joined(reads)

\* C12 witness: a read of two blocks from block 1 has resolved with the data of
\* block 1 followed by the data of block 2
C12_TwoBlocksJoined ==
    \E p \in BlockReads :
        /\ procs[p].length = 2
        /\ procs[p].out.state = "ok"
        /\ procs[p].out.value = BlockData(1) \o BlockData(2)


\* C13: once a single-block read of a multi-block read has failed, the
\* multi-block read has rejected with an error that carries the number of the
\* failing block, and the busy flag is false
C13_FailedBlockRejectsTheRead ==
    \A p \in BlockReads :
        LET reads == Children(p)
        IN  \A k \in 1..Len(reads) :
                procs[reads[k]].out.state = "ng" =>
                    /\ procs[p].out.state = "ng"
                    /\ procs[p].out.block_number = procs[reads[k]].block_number
                    /\ ~_busy


\* ---------------------------------------------------------------------------
\* polling and init_device
\* ---------------------------------------------------------------------------

\* the polls that ran, as opposed to those turned away with 'busy'
Polls == {p \in 1..Len(procs) : procs[p].op = "polling" /\ Children(p) # <<>>}

\* C14: in the step that delivers the outcome of a poll the busy flag is false
\* afterwards; a poll whose transaction resolved with a body starting
\* D54B01011201 resolves with idm = body[6,14) and pmm = body[14,22), and one
\* whose body starts D54B00 resolves with the empty result
C14_PollOutcome ==
    [][\A p \in Polls :
          Outstanding(p) /\ procs'[p].out.state # "pending" =>
              LET body == procs'[Children(p)[1]].out
                  hex == ToHex(body.value)
              IN  /\ ~_busy'
                  /\ body.state = "ok" /\ IndexOfIsZero(hex, <<13,5, 4,11, 0,1, 0,1, 1,2, 0,1>>) =>
                         /\ procs'[p].out.state = "ok"
                         /\ procs'[p].out.found
                         /\ procs'[p].out.idm = Slice(body.value, 6, 14)
                         /\ procs'[p].out.pmn = Slice(body.value, 14, 22)
                  /\ body.state = "ok" /\ IndexOfIsZero(hex, <<13,5, 4,11, 0,0>>) =>
                         procs'[p].out = Ok(<<>>)
                  /\ body.state = "ng" => procs'[p].out.state = "ng"]_vars

\* C14 witness: a poll has resolved with the identifiers of the card, another
\* with the empty result, and the busy flag is false
C14_CardFoundAndNoCard ==
    /\ ~_busy
    /\ \E p \in Polls :
           /\ procs[p].out.state = "ok" /\ procs[p].out.found
           /\ procs[p].out.idm = <<1, 2, 3, 4, 5, 6, 7, 8>>
           /\ procs[p].out.pmn = <<9, 10, 11, 12, 13, 14, 15, 16>>
    /\ \E p \in Polls :
           /\ procs[p].out = Ok(<<>>)
           /\ procs[Children(p)[1]].out.value = <<213, 75, 0>>


\* the payloads written for the transactions in steps, in the order written
PayloadsOf(steps) ==
    LET mine == SelectSeq(written, LAMBDA w :
                    w.part = "payload" /\ \E k \in 1..Len(steps) : steps[k] = w.proc)
    IN  [k \in 1..Len(mine) |-> mine[k].bytes]

\* the three setup commands in the order init_device is to send them
SetupCommands ==
    << <<212, 50, 2, 0, 0, 0>>, <<212, 50, 5, 0, 0, 0>>, <<212, 50, 129, 183>> >>

\* the stage tags in the same order
SetupTags == <<"open-device-failed", "RFConfiguration-1-failed", "RFConfiguration-2-failed">>

\* C15: init_device sends open-device, RF-configuration max-retries and
\* RF-configuration additional-wait in that order, each once and only after the
\* transaction before it resolved; a failed step is the last one, and
\* init_device has then rejected with that step's tag
C15_SetupInOrderStopsAtFailure ==
    \A p \in 1..Len(procs) :
        procs[p].op = "init_device" =>
            LET steps == Children(p)
                sent == PayloadsOf(steps)
            IN  /\ Len(steps) <= 3
                /\ Len(sent) <= Len(steps)
                /\ \A k \in 1..Len(sent) : sent[k] = SetupCommands[k]
                /\ \A k \in 1..Len(steps) :
                       /\ procs[steps[k]].command = SetupCommands[k]
                       /\ k < Len(steps) => procs[steps[k]].out.state = "ok"
                       /\ procs[steps[k]].out.state = "ng" =>
                              /\ procs[p].out.state = "ng"
                              /\ procs[p].out.error[1] = SetupTags[k]
                /\ procs[p].out.state = "ok" =>
                       /\ Len(steps) = 3
                       /\ procs[steps[3]].out.state = "ok"

\* C15 witness: init_device has failed at its second step after sending two
\* commands
C15_FailedAtSecondStep ==
    \E p \in 1..Len(procs) :
        /\ procs[p].op = "init_device"
        /\ procs[p].out.state = "ng"
        /\ procs[p].out.error[1] = "RFConfiguration-1-failed"
        /\ Len(PayloadsOf(Children(p))) = 2


\* ---------------------------------------------------------------------------
\* frames
\* ---------------------------------------------------------------------------

\* the frame headers written so far
Headers == {k \in 1..Len(written) : written[k].part = "header"}

\* 00 00 FF LEN LCS for a payload of len octets
IsNormalHeader(bytes, len) ==
    /\ Len(bytes) = 5
    /\ SubSeq(bytes, 1, 3) = <<0, 0, 255>>
    /\ bytes[4] = len
    /\ (bytes[4] + bytes[5]) % 256 = 0

\* 00 00 FF FF FF LEN_HI LEN_LO LCS_EXT for a payload of len octets
IsExtendedHeader(bytes, len) ==
    /\ Len(bytes) = 8
    /\ SubSeq(bytes, 1, 5) = <<0, 0, 255, 255, 255>>
    /\ bytes[6] * 256 + bytes[7] = len
    /\ bytes[8] \in 0..255

\* C16: the header written before a payload is the normal one exactly when the
\* payload is at most 255 octets long, and the extended one otherwise
C16_NormalHeaderUpTo255 ==
    \A k \in Headers :
        LET len == Len(procs[written[k].proc].command)
        IN  IF len <= 255
            THEN IsNormalHeader(written[k].bytes, len)
            ELSE IsExtendedHeader(written[k].bytes, len)

\* C16 witness: the extended header was written for a payload of 256 octets
C16_ExtendedAt256 ==
    \E k \in Headers :
        /\ Len(procs[written[k].proc].command) = 256
        /\ written[k].bytes = <<0, 0, 255, 255, 255, 1, 0, written[k].bytes[8]>>

\* the buffers whose checksum the driver has computed, each with the checksum:
\* the payloads it sent, with the first octet of the trailer it wrote, and the
\* response bodies it read, with the octet it expects of their trailer
Checksummed ==
    {<<procs[written[k].proc].command, written[k].bytes[1]>> :
        k \in {j \in 1..Len(written) : written[j].part = "trailer"}}
    \cup
    {<<procs[_read_queue[k].owner].response_body, _read_queue[k].check.dcs>> :
        k \in {j \in 1..Len(_read_queue) : _read_queue[j].check.name = "trailer"}}

\* C17: the checksum of a byte sequence is in 0..255 and brings the sum of the
\* bytes to a multiple of 256
C17_ChecksumCancelsSum ==
    \A pair \in Checksummed :
        /\ pair[2] \in 0..255
        /\ (SumBytes(pair[1]) + pair[2]) % 256 = 0

\* C17 witness: the driver has computed the checksum of a payload whose bytes
\* add up to 256, when it sent it and again when it read it back
C17_SumIsMultipleOf256 ==
    /\ <<<<1, 255>>, 0>> \in Checksummed
    /\ \E k \in 1..Len(_read_queue) :
           /\ _read_queue[k].check.name = "trailer"
           /\ procs[_read_queue[k].owner].response_body = <<1, 255>>


\* C18: when the reader answers a transaction with the ACK and the normal frame
\* the codec builds for a payload, the transaction's decoding fails on no
\* checksum and no validator of a read, asks for exactly as many body octets as
\* the payload has, and has the payload as its response body once the body is
\* read; only a deadline or the caller's validator stage can still fail it
C18_NormalFrameRoundTrip ==
    \A p \in Transactions :
        Transactions = {p} /\ p \in answered =>
            LET me == procs[p]
                payload == Echo(me.command)
            IN  /\ me.error # <<>> =>
                       \/ me.error = <<"check-failed">>
                       \/ me.error[Len(me.error)] = "timeout"
                /\ me.pc = "body" =>
                       \A k \in 1..Len(_read_queue) :
                           _read_queue[k].owner = p /\ _read_queue[k].promise = "pending" =>
                               _read_queue[k].bytes_needed + Len(_read_queue[k].buffers)
                                   = Len(payload)
                /\ me.pc = "trailer" \/ me.error = <<"check-failed">> \/ me.out.state = "ok" =>
                       me.response_body = payload
                /\ me.out.state = "ok" => me.out.value = payload

\* C18 witness: a transaction answered with the frame of a payload of 255 octets
\* has resolved with that payload
C18_Recovered255 ==
    \E p \in Transactions :
        /\ p \in answered
        /\ Len(procs[p].command) = 255
        /\ procs[p].out.state = "ok"
        /\ procs[p].out.value = procs[p].command


\* ---------------------------------------------------------------------------
\* completion of a read
\* ---------------------------------------------------------------------------

\* the validator of a read accepts buf: no validator, the hex string of buf, or
\* a predicate that holds of buf
Accepts(check, buf) ==
    \/ check.type = "string" /\ check.hex \in {<<>>, ToHex(buf)}
    \/ check.type = "function" /\ check.name = "trailer"
           /\ Len(buf) >= 2 /\ buf[1] = check.dcs /\ buf[2] = 0

\* C19: the tick that settles the head before its deadline resolves it with the
\* bytes assembled for it if its validator accepts them or is absent, rejects
\* it with 'check-failed' otherwise, and either way takes it off the queue and
\* leaves the bytes after its own in the accumulation buffer for the next
\* entry, which is the head from then on
C19_CompletionSettlesAndRemoves ==
    [][_read_queue # <<>> =>
          LET head == _read_queue[1]
              out_buffer == head.buffers \o Slice(_read_buffer.bytes, 0, head.bytes_needed)
          IN  (/\ now < head.time_expire
               /\ procs[head.owner].op = "_read"
               /\ Outstanding(head.owner)
               /\ procs'[head.owner].out.state # "pending") =>
                  /\ procs'[head.owner].out =
                         IF Accepts(head.check, out_buffer)
                         THEN Ok(out_buffer) ELSE Ng(<<"check-failed">>)
                  /\ _read_queue' = Tail(_read_queue)
                  /\ _read_buffer'.bytes = SliceFrom(_read_buffer.bytes, head.bytes_needed)]_vars

\* C19 witness: the first read was rejected with 'check-failed', and the read
\* queued behind it has resolved with the bytes that came after
C19_NextReadGotTheRest ==
    /\ Len(procs) = 2
    /\ procs[1].op = "_read" /\ procs[1].out = Ng(<<"check-failed">>)
    /\ procs[2].op = "_read" /\ procs[2].out.state = "ok"
    /\ procs[1].length + procs[2].length = Len(received)
    /\ procs[2].out.value = SliceFrom(received, procs[1].length)
    /\ procs[2].length > 0
    /\ _read_queue = <<>>


\* ---------------------------------------------------------------------------
\* the ACK stage
\* ---------------------------------------------------------------------------

\* the read at the head of the queue is the ACK read of a transaction, and this
\* step ends it
AckReadEnds ==
    /\ _read_queue # <<>>
    /\ _read_queue[1].promise = "pending"
    /\ procs[_read_queue[1].owner].op = "_rw_command"
    /\ procs[_read_queue[1].owner].pc = "ack"
    /\ \A k \in 1..Len(_read_queue') :
           /\ _read_queue'[k].owner = _read_queue[1].owner
           /\ _read_queue'[k].check = _read_queue[1].check
           => _read_queue'[k].promise # "pending"

\* the six bytes the ACK read ends with, if it ends with six bytes in time
AckBytes ==
    IF now >= _read_queue[1].time_expire THEN <<>>
    ELSE _read_queue[1].buffers \o Slice(_read_buffer.bytes, 0, _read_queue[1].bytes_needed)

\* C20: when the ACK read of a transaction ends without the six bytes
\* 00 00 FF 00 FF 00, by other bytes or by its deadline, the transaction goes on
\* to fail with 'no-ack' and no read for the response header is queued
C20_AckFailureIsNoAck ==
    [][AckReadEnds /\ AckBytes # <<0, 0, 255, 0, 255, 0>> =>
          LET p == _read_queue[1].owner
          IN  /\ procs'[p].pc = "cancel_drain"
              /\ procs'[p].error[1] = "no-ack"
              /\ \A k \in 1..Len(_read_queue') :
                     _read_queue'[k].owner = p => _read_queue'[k].promise # "pending"]_vars

\* ---------------------------------------------------------------------------
\* the extended-length response header
\* ---------------------------------------------------------------------------

\* the read at the head of the queue is the header read of a transaction, and
\* this step completes it in time
HeaderReadEnds ==
    /\ _read_queue # <<>>
    /\ _read_queue[1].promise = "pending"
    /\ now < _read_queue[1].time_expire
    /\ procs[_read_queue[1].owner].op = "_rw_command"
    /\ procs[_read_queue[1].owner].pc = "header"
    /\ procs'[_read_queue[1].owner].pc # "header"

\* the five bytes the header read completes with
HeaderBytes ==
    _read_queue[1].buffers \o Slice(_read_buffer.bytes, 0, _read_queue[1].bytes_needed)

\* C21: when the response header carries FF FF in its length positions, the
\* transaction goes on in one of two ways: it cancels and fails with
\* 'response-checksum-error', or it queues the read of a body whose length the
\* extended header gave
C21_ExtendedHeaderIsHandled ==
    [][(/\ HeaderReadEnds
        /\ HeaderBytes[4] = 255 /\ HeaderBytes[5] = 255) =>
          LET p == _read_queue[1].owner
          IN  \/ /\ procs'[p].pc = "cancel_drain"
                 /\ procs'[p].error = <<"response-checksum-error">>
              \/ /\ procs'[p].pc = "body"
                 /\ \E k \in 1..Len(_read_queue') : _read_queue'[k].owner = p]_vars

\* the body length the header being completed declares: its fourth octet, or
\* the two octets that follow an extended header on the line
DeclaredLength ==
    LET rest == SliceFrom(_read_buffer.bytes, _read_queue[1].bytes_needed) \o wire
    IN  IF HeaderBytes[4] = 255 /\ HeaderBytes[5] = 255
        THEN IF Len(rest) >= 2 THEN rest[1] * 256 + rest[2] ELSE 0
        ELSE HeaderBytes[4]

\* the lengths of the body reads in the queue, as they were asked for
BodyBytesRequested ==
    {_read_queue[k].bytes_needed + Len(_read_queue[k].buffers) :
        k \in {j \in 1..Len(_read_queue) :
                  /\ procs[_read_queue[j].owner].op = "_rw_command"
                  /\ procs[_read_queue[j].owner].pc = "body"}}

\* C22: a response header that declares more than 265 body octets makes the
\* transaction cancel and fail with 'response-too-long' with no body read
\* queued, and no body read ever asks the queue for more than 265 octets
C22_TooLongIsCancelled ==
    /\ [](\A n \in BodyBytesRequested : n <= MAX_RW_RESPONSE_LEN)
    /\ [][HeaderReadEnds /\ DeclaredLength > MAX_RW_RESPONSE_LEN =>
            LET p == _read_queue[1].owner
            IN  /\ procs'[p].pc = "cancel_drain"
                /\ procs'[p].error = <<"response-too-long">>
                /\ \A k \in 1..Len(_read_queue') : _read_queue'[k].owner # p]_vars

\* ---------------------------------------------------------------------------
\* stale input
\* ---------------------------------------------------------------------------

\* this step is the timer callback that completes the cancel of a transaction
CancelCompletes ==
    \E p \in Transactions : procs[p].pc = "cancel_wait" /\ procs'[p].pc # "cancel_wait"

\* C23: when the cancel of a transaction completes, the accumulation buffer the
\* read queue takes its bytes from is empty
C23_CancelEmptiesTheBuffer ==
    [][CancelCompletes => _read_buffer'.bytes = <<>>]_vars

\* this step is a tick that hands bytes of the accumulation buffer to the
\* pending read of a transaction at the head of the queue
HandsBytesToTransaction ==
    /\ _read_queue # <<>>
    /\ _read_queue[1].promise = "pending"
    /\ procs[_read_queue[1].owner].op = "_rw_command"
    /\ now < _read_queue[1].time_expire
    /\ Len(_read_buffer'.bytes) < Len(_read_buffer.bytes)

\* C24: with every transaction started after the one before has settled, and a
\* reader that sends nothing for a command once its cancel is written, a read of
\* a transaction is handed bytes only after the reader has answered that
\* transaction's own frame: bytes sent for an earlier one never reach it
C24_NoByteFromBeforeTheFrame ==
    [][HandsBytesToTransaction => _read_queue[1].owner \in answered]_vars

\* ---------------------------------------------------------------------------
\* the extended length checksum
\* ---------------------------------------------------------------------------

\* C25: in every extended header written, the two length octets and the
\* checksum octet after them add up to a multiple of 256
C25_ExtendedChecksumCancelsLength ==
    \A k \in Headers :
        Len(written[k].bytes) = 8 =>
            (written[k].bytes[6] + written[k].bytes[7] + written[k].bytes[8]) % 256 = 0

\* ---------------------------------------------------------------------------
\* deadlines
\* ---------------------------------------------------------------------------

\* the timeout argument of the _read call that queued entry k, if it had one
CallerTimeout(k) == procs[_read_queue[k].owner].timeout

\* C26: the deadline of a queued read is the time it was queued at plus the
\* timeout its caller passed, and plus the configured timeout of the reader
\* object only if the caller passed none
C26_DeadlineFromCallerTimeout ==
    \A k \in 1..Len(_read_queue) :
        _read_queue[k].time_expire =
            _read_queue[k].time_in +
                (IF CallerTimeout(k) # -1 THEN CallerTimeout(k) ELSE _timeout)

\* ---------------------------------------------------------------------------
\* conservation of bytes
\* ---------------------------------------------------------------------------

\* the direct reads the program has called, in call order
DirectReads == {p \in 1..Len(procs) : procs[p].op = "_read"}

\* the number of bytes the reads called before read p asked for
RECURSIVE AskedBefore(_)
AskedBefore(p) == IF p <= 1 THEN 0 ELSE AskedBefore(p - 1) + procs[p - 1].length

\* the reads still in the queue
Queued == {_read_queue[k].owner : k \in 1..Len(_read_queue)}

\* the number of bytes handed out so far: to the reads that left the queue, and
\* to the head
HandedOut ==
    IF _read_queue = <<>> THEN AskedBefore(Len(procs) + 1)
    ELSE AskedBefore(_read_queue[1].owner) + Len(_read_queue[1].buffers)

\* C27: with reads served in the order they were called, the bytes received are,
\* in arrival order, the bytes of the reads that left the queue, each as long as
\* it asked for, then the bytes accumulated for the head, then the accumulation
\* buffer; a resolved read holds exactly its own stretch, and for every queued
\* read the bytes it still needs and the bytes it has add up to its length
C27_BytesAreConserved ==
    /\ \A p \in DirectReads \ Queued :
           procs[p].out.state = "ok" =>
               procs[p].out.value =
                   Slice(received, AskedBefore(p), AskedBefore(p) + procs[p].length)
    /\ _read_queue # <<>> =>
           _read_queue[1].buffers =
               Slice(received, AskedBefore(_read_queue[1].owner), HandedOut)
    /\ _read_buffer.bytes = SliceFrom(received, HandedOut)
    /\ Len(received) = HandedOut + Len(_read_buffer.bytes)
    /\ \A k \in 1..Len(_read_queue) :
           /\ _read_queue[k].bytes_needed + Len(_read_queue[k].buffers) =
                  procs[_read_queue[k].owner].length
           /\ k > 1 => _read_queue[k].buffers = <<>>

\* C27 witness: three bytes have arrived; the first read resolved with the
\* first, the head has the second and waits for one more, and the third is in
\* the accumulation buffer
C27_OneEach ==
    /\ Len(received) = 3
    /\ Len(procs) = 2
    /\ procs[1].out = Ok(Slice(received, 0, 1))
    /\ Len(_read_queue) = 1
    /\ _read_queue[1].owner = 2
    /\ _read_queue[1].buffers = Slice(received, 1, 2)
    /\ _read_queue[1].bytes_needed = 1
    /\ _read_buffer.bytes = Slice(received, 2, 3)

\* ---------------------------------------------------------------------------
\* the callbacks of a read
\* ---------------------------------------------------------------------------

\* the calls the read timer has made of the callbacks of the read that process
\* p queued with validator check
CallsOf(p, check) ==
    {k \in 1..Len(invoked) : invoked[k].owner = p /\ invoked[k].check = check}

\* C28: of the two callbacks of a read the read timer calls one, once: no read
\* has had two calls made of its callbacks, be it both callbacks or one of them
\* twice, and every read that has left the queue has had one
C28_OneCallbackOnce ==
    /\ \A k \in 1..Len(invoked) :
           Cardinality(CallsOf(invoked[k].owner, invoked[k].check)) = 1
    /\ \A p \in DirectReads \ Queued :
           Cardinality(CallsOf(p, procs[p].check)) = 1

\* ---------------------------------------------------------------------------
\* the deadline comes first
\* ---------------------------------------------------------------------------

\* this step is a tick that finds a pending head whose deadline has passed
ExpiredHeadTick ==
    /\ _read_queue # <<>>
    /\ _read_queue[1].promise = "pending"
    /\ now >= _read_queue[1].time_expire
    /\ invoked' # invoked

\* C29: the tick that finds the head past its deadline calls the head's failure
\* callback, and no other, whatever the accumulation buffer holds: the promise
\* is rejected, with 'timeout' for whoever awaits it, the head is given no byte,
\* and the accumulation buffer is after the tick what it was before
C29_DeadlineBeforeBytes ==
    [][ExpiredHeadTick =>
          LET head == _read_queue[1]
          IN  /\ invoked' = Append(invoked, [owner |-> head.owner, check |-> head.check,
                                             callback |-> "ng_callback"])
              /\ \A j \in 1..Len(_read_queue') :
                     _read_queue'[j].owner = head.owner =>
                         /\ _read_queue'[j].promise = "rejected"
                         /\ _read_queue'[j].buffers = head.buffers
                         /\ _read_queue'[j].bytes_needed = head.bytes_needed
              /\ procs'[head.owner].out \in {Pending, Ng(<<"timeout">>)}
              /\ ~exited' => procs'[head.owner].out = Ng(<<"timeout">>)
              /\ _read_buffer' = _read_buffer]_vars

\* C29 witness: a read that asked for two bytes has been rejected with
\* 'timeout' by a tick that found both in the accumulation buffer, where they
\* still are; the process ended on that tick, so nothing arrived after it
C29_ExpiredWithAllItNeeds ==
    /\ exited
    /\ _read_queue # <<>>
    /\ _read_queue[1].promise = "rejected"
    /\ _read_queue[1].bytes_needed = 2
    /\ Len(_read_buffer.bytes) >= 2
    /\ invoked = <<[owner |-> _read_queue[1].owner, check |-> _read_queue[1].check,
                    callback |-> "ng_callback"]>>

====
